---- MODULE Spec2Model ----
(***************************************************************************)
(* Met-Roulette: the three tab screens (met.tsx, aic.tsx, cma.tsx) as one  *)
(* state machine.  `screen` says which screen a behaviour is about; the    *)
(* React state of that screen (ids, loading, art, error, refreshing, the   *)
(* keys), the AsyncStorage entry, the effect closures with their           *)
(* `cancelled` flags and the requests in flight are the state.             *)
(*                                                                         *)
(* Scheduling assumptions (React 18, as shipped with expo-router):         *)
(*  - state updates made in one continuation are batched into one render;  *)
(*  - the effects of a render (cleanup of the previous run, then the new   *)
(*    run up to its first await) run before any network response is        *)
(*    delivered, so a handler and the effect runs it causes are one step.  *)
(* AsyncStorage is taken to be reliable (get/set never reject).            *)
(***************************************************************************)
EXTENDS Integers, Sequences, FiniteSets, TLC

VARIABLES
    screen,      \* "met" | "aic" | "cma": the screen this behaviour runs
    ids,         \* met.tsx useState<number[]>([])
    loading,     \* useState(true)
    art,         \* useState(null): NoArt or the displayed artwork
    error,       \* useState(""): Str value
    refreshing,  \* useState(false)
    randomKey,   \* useState(0)
    refreshKey,  \* met.tsx useState(0)
    store,       \* AsyncStorage entry under STORAGE_KEYS.IDS
    loaders,     \* met.tsx: runs of the ID-list loader effect (closures)
    inv,         \* runs of the picker effect (closures) that are not yet garbage, oldest first
    attempt,     \* loop variable of the newest picker run (i / attempt)
    startIndex,  \* met.tsx: startIndex of the newest picker run
    nreq,        \* history: requests issued by the newest picker run
    clean,       \* history: every response to the newest run was well formed and had no usable record
    late,        \* history: a response has been handled by a run that was already cancelled
    saw,         \* history: the newest run has handled a response whose filtered set was non-empty
    artSrc,      \* history: the source record art was normalised from
    lastWriter,  \* history: who last wrote art / error / loading
    bulkFetches, \* history: GET {BASE}/objects requests issued
    coldStart,   \* history: the store held no entry at the first mount
    sequential,  \* history: every loader run began after the one before it had finished
    mounts,      \* history: number of mounts of the screen
    triggers,    \* history: number of shuffle presses and pull-to-refresh gestures
    pL, pS, pI, pSeen, pDup, \* the probe-sequence specification (ProbeSpec)
    platform,    \* Platform.OS
    savePc,      \* saveCurrentImage: where the call is ("idle" before the long press)
    saveReq,     \* saveCurrentImage: the url and fileUri the call computed
    alert,       \* the Alert.alert on display, by its title, or "none"
    webDownload, \* the web fallback has clicked its download link
    saveThrew    \* history: an awaited call of saveCurrentImage has thrown

vars == <<screen, ids, loading, art, error, refreshing, randomKey, refreshKey,
          store, loaders, inv, attempt, startIndex, nreq, clean, late,
          saw, artSrc, lastWriter, bulkFetches, coldStart, sequential, mounts,
          triggers, pL, pS, pI, pSeen, pDup,
          platform, savePc, saveReq, alert, webDownload, saveThrew>>

----------------------------------------------------------------------------
(* Bounds of the model *)

MaxEvents == 1     \* shuffle presses + pull-to-refresh gestures + remounts per behaviour
MaxBatch == 2      \* records in one search response
MaxIds == 1        \* identifiers in the bulk /objects response
MaxLen == 12       \* ProbeSpec: longest ID list

(* Program constants *)

AIC_ATTEMPTS == 12
CMA_ATTEMPTS == 12
TRY_LIMIT == 200
STRIDE == 9973

----------------------------------------------------------------------------
(* JavaScript values.  A string is a sequence of non-empty chunks, so that *)
(* template literals and joins are concatenations and "" is Str(<<>>).     *)

UNDEF == [t |-> "undefined"]
Str(chunks) == [t |-> "string", v |-> chunks]
S(c) == Str(<<c>>)
EMPTY == Str(<<>>)

\* JS truthiness of a string-or-undefined value
Truthy(x) == x.t = "string" /\ x.v # <<>>

\* a || b
Or(a, b) == IF Truthy(a) THEN a ELSE b

\* `${a}${b}` for two strings
Cat(a, b) == Str(a.v \o b.v)

NoArt == [t |-> "null"]

Screens == {"met", "aic", "cma"}

\* Array.isArray(x): an array is [t |-> "array", v |-> <<...>>]
Arr(items) == [t |-> "array", v |-> items]
IsArray(x) == x.t = "array"

\* The response bodies hold at most n distinct records, in the order of
\* their ids (the pick among them is random, so the order decides nothing).
RECURSIVE ById(_)
ById(set) ==
    IF set = {} THEN <<>>
    ELSE LET first == CHOOSE x \in set : \A y \in set : x.id <= y.id
         IN  <<first>> \o ById(set \ {first})
Batches(set, n) == {ById(T) : T \in {U \in SUBSET set : Cardinality(U) <= n}}

\* Array.prototype.join(sep) on an array of strings
RECURSIVE Join(_, _)
Join(strs, sep) ==
    IF strs = <<>> THEN EMPTY
    ELSE IF Len(strs) = 1 THEN Head(strs)
    ELSE Cat(Cat(Head(strs), sep), Join(Tail(strs), sep))

Range(seq) == {seq[n] : n \in 1..Len(seq)}

----------------------------------------------------------------------------
(* The catalogs' records, as the servers may return them.  A transport or  *)
(* JSON-parse failure is [kind |-> "fail"]; an HTTP error with a JSON body *)
(* is a body without the expected fields.                                  *)

Failures == {[kind |-> "fail", cause |-> c] : c \in {"transport", "parse"}}

\* GET {BASE}/artworks/search: records of json.data
AICItems ==
    { [id |-> 1, is_public_domain |-> TRUE,  image_id |-> S("img-1"),
       title |-> S("Water Lilies"), artist_display |-> S("Claude Monet")],
      [id |-> 2, is_public_domain |-> TRUE,  image_id |-> S("img-2"),
       title |-> UNDEF, artist_display |-> EMPTY],
      [id |-> 3, is_public_domain |-> FALSE, image_id |-> S("img-3"),
       title |-> S("Nighthawks"), artist_display |-> S("Edward Hopper")],
      [id |-> 4, is_public_domain |-> TRUE,  image_id |-> UNDEF,
       title |-> S("Study"), artist_display |-> UNDEF] }

AICBodies ==
    {[kind |-> "ok", data |-> Arr(b), iiif_url |-> u] :
        b \in Batches(AICItems, MaxBatch), u \in {UNDEF, S("https://iiif.example/2")}}
    \cup {[kind |-> "ok", data |-> UNDEF, iiif_url |-> UNDEF]}

AICResponses == Failures \cup AICBodies

\* GET {BASE}/artworks: records of json.data.  images.web.url etc. are the
\* values of the optional chains it?.images?.web?.url, UNDEF when any link
\* of the chain is missing.
NoCreators == UNDEF
Creator(d, r, n) == [description |-> d, role |-> r, name |-> n]

CMAItems ==
    { [id |-> 1, share_license_status |-> S("CC0"),
       web_url |-> S("https://cma/web-1.jpg"), web_large |-> UNDEF,
       web_filename |-> S("web-1.jpg"), print_url |-> S("https://cma/print-1.jpg"),
       title |-> S("Twilight in the Wilderness"),
       creators |-> Arr(<<Creator(S("Frederic Edwin Church (American)"), S("artist"), UNDEF)>>)],
      [id |-> 2, share_license_status |-> S("CC0"),
       web_url |-> UNDEF, web_large |-> S("https://cma/large-2.jpg"),
       web_filename |-> UNDEF, print_url |-> UNDEF,
       title |-> UNDEF, creators |-> NoCreators],
      [id |-> 3, share_license_status |-> S("CC0"),
       web_url |-> UNDEF, web_large |-> UNDEF,
       web_filename |-> UNDEF, print_url |-> S("https://cma/print-3.jpg"),
       title |-> EMPTY, creators |-> Arr(<<>>)],
      [id |-> 4, share_license_status |-> S("CC0"),
       web_url |-> UNDEF, web_large |-> UNDEF,
       web_filename |-> S("web-4.jpg"), print_url |-> UNDEF,
       title |-> S("Vase"), creators |-> NoCreators],
      [id |-> 5, share_license_status |-> S("CC0"),
       web_url |-> UNDEF, web_large |-> UNDEF,
       web_filename |-> UNDEF, print_url |-> UNDEF,
       title |-> S("Coin"), creators |-> NoCreators],
      [id |-> 6, share_license_status |-> S("Copyrighted"),
       web_url |-> S("https://cma/web-6.jpg"), web_large |-> UNDEF,
       web_filename |-> UNDEF, print_url |-> UNDEF,
       title |-> S("Untitled (1998)"),
       creators |-> Arr(<<Creator(UNDEF, EMPTY, UNDEF)>>)] }

CMABodies ==
    {[kind |-> "ok", data |-> Arr(b)] : b \in Batches(CMAItems, MaxBatch)}
    \cup {[kind |-> "ok", data |-> UNDEF]}

CMAResponses == Failures \cup CMABodies

\* GET {BASE}/objects/{id}: the record o.  The Met API sends "" for a
\* missing image; an error body ({message: ...}) has none of the fields.
MetObjects ==
    { [isPublicDomain |-> TRUE,  primaryImageSmall |-> S("https://met/small.jpg"),
       primaryImage |-> S("https://met/full.jpg"),
       title |-> S("Wheat Field"), artistDisplayName |-> S("Vincent van Gogh")],
      [isPublicDomain |-> TRUE,  primaryImageSmall |-> EMPTY,
       primaryImage |-> S("https://met/full.jpg"),
       title |-> EMPTY, artistDisplayName |-> EMPTY],
      [isPublicDomain |-> TRUE,  primaryImageSmall |-> EMPTY, primaryImage |-> EMPTY,
       title |-> S("Fragment"), artistDisplayName |-> EMPTY],
      [isPublicDomain |-> FALSE, primaryImageSmall |-> S("https://met/small.jpg"),
       primaryImage |-> S("https://met/full.jpg"),
       title |-> S("Autumn Rhythm"), artistDisplayName |-> S("Jackson Pollock")],
      [isPublicDomain |-> FALSE, primaryImageSmall |-> UNDEF, primaryImage |-> UNDEF,
       title |-> UNDEF, artistDisplayName |-> UNDEF] }

MetResponses == Failures \cup {[kind |-> "ok", o |-> o] : o \in MetObjects}

\* GET {BASE}/objects: data.objectIDs is a list 1..n, or the field is missing
IdLists == {[n \in 1..len |-> n] : len \in 0..MaxIds}
BulkResponses ==
    Failures
    \cup {[kind |-> "ok", objectIDs |-> Arr(l)] : l \in IdLists}
    \cup {[kind |-> "ok", objectIDs |-> UNDEF]}

----------------------------------------------------------------------------
(* The cancellation flag and the retry loop, shared by the three pickers   *)

\* if (!cancelled) { ...setState... }
NotCancelledM(cancelled) == TRUE
NotCancelled(cancelled) == ~cancelled

\* for (let i = 0; i < LIMIT && !cancelled; i++)
LoopCondM(i, limit, cancelled) == i <= limit /\ ~cancelled
LoopCond(i, limit, cancelled) == i < limit /\ ~cancelled

\* What one continuation of a picker does when its awaited response is in:
\* the state it writes (w) and whether it issues the next request or ends.
SetArt(a, src) == [w |-> "art", art |-> a, src |-> src, msg |-> EMPTY, why |-> "art", next |-> "done"]
SetError(m, why) == [w |-> "error", art |-> NoArt, src |-> UNDEF, msg |-> m, why |-> why, next |-> "done"]
Return == [w |-> "none", art |-> NoArt, src |-> UNDEF, msg |-> EMPTY, why |-> "none", next |-> "done"]
NextRequest == [w |-> "none", art |-> NoArt, src |-> UNDEF, msg |-> EMPTY, why |-> "none", next |-> "request"]

----------------------------------------------------------------------------
(* aic.tsx *)

\* The messages are written with an ASCII apostrophe; the sources have
\* U+2019 (met.tsx: its mis-decoded bytes).  Only equality between the
\* messages matters.
AICRetryMsg == S("Couldn't find an AIC image right now. Pull to refresh.")
AICCatchMsgM == S("Network error. Pull to refresh.")
AICCatchMsg == S("Couldn't find an AIC image right now. Pull to refresh.")

AICData(json) == IF IsArray(json.data) THEN json.data.v ELSE <<>>

AICKeep(it) == Truthy(it.image_id)

AICCandidates(json) == SelectSeq(AICData(json), AICKeep)

AICImg(json, item) ==
    LET iiifBase == Or(json.iiif_url, S("https://www.artic.edu/iiif/2"))
    IN  Cat(Cat(Cat(iiifBase, S("/")), item.image_id), S("/full/843,/0/default.jpg"))

AICNormalize(json, item) ==
    [id |-> item.id,
     title |-> Or(item.title, S("Untitled")),
     artist |-> Or(item.artist_display, S("Unknown")),
     img |-> AICImg(json, item)]

\* the continuation of pickRandomAIC after `await fetch` / `await res.json()`
\* of attempt number `att` (0-based); r is the index Math.random picks
AICStep(resp, r, att, cancelled) ==
    IF resp.kind = "fail"
    THEN IF NotCancelled(cancelled) THEN SetError(AICCatchMsg, "failure") ELSE Return
    ELSE LET candidates == AICCandidates(resp)
         IN  IF Len(candidates) > 0
             THEN IF NotCancelled(cancelled)
                  THEN SetArt(AICNormalize(resp, candidates[r]), candidates[r])
                  ELSE Return
             ELSE IF LoopCond(att + 1, AIC_ATTEMPTS, cancelled)
                  THEN NextRequest
                  ELSE IF NotCancelled(cancelled)
                       THEN SetError(AICRetryMsg, "exhausted")
                       ELSE Return

----------------------------------------------------------------------------
(* cma.tsx *)

CMARetryMsg == S("Couldn't find a CMA image right now. Pull to refresh.")
CMACatchMsg == S("Couldn't find a CMA image right now. Pull to refresh.")

\* String.prototype.toLowerCase on the license strings of the catalog
LowerChunk(c) ==
    CASE c = "CC0" -> "cc0"
      [] c = "Copyrighted" -> "copyrighted"
      [] OTHER -> c
ToLowerCase(x) == IF x.t = "string" THEN Str([n \in 1..Len(x.v) |-> LowerChunk(x.v[n])]) ELSE UNDEF

CMAData(json) == IF IsArray(json.data) THEN json.data.v ELSE <<>>

CMAWebUrl(it) == Or(Or(Or(it.web_url, it.web_large), it.web_filename), it.print_url)

\* it?.share_license_status?.toLowerCase?.() === "cc0" || true
CMALicenseOk(it) == (ToLowerCase(it.share_license_status) = S("cc0")) \/ TRUE

CMAKeep(it) == Truthy(CMAWebUrl(it)) /\ CMALicenseOk(it)

CMACandidates(json) == SelectSeq(CMAData(json), CMAKeep)

CMAImgUrl(pick) == Or(Or(pick.web_url, pick.web_large), pick.print_url)

\* pick.creators.map(c => c?.description || c?.role || c?.name).filter(Boolean).join(", ")
CMAArtist(pick) ==
    IF IsArray(pick.creators) /\ Len(pick.creators.v) > 0
    THEN LET cs == pick.creators.v
             mapped == [n \in 1..Len(cs) |-> Or(Or(cs[n].description, cs[n].role), cs[n].name)]
         IN  Join(SelectSeq(mapped, Truthy), S(", "))
    ELSE S("Unknown")

CMANormalize(pick) ==
    [id |-> pick.id,
     title |-> Or(pick.title, S("Untitled")),
     artist |-> CMAArtist(pick),
     img |-> CMAImgUrl(pick)]

\* if (!imgUrl) continue;
CMASkipPickM(imgUrl) == FALSE
CMASkipPick(imgUrl) == ~Truthy(imgUrl)

\* the continuation of pickRandomCMA after the response of attempt `att`
CMAStep(resp, r, att, cancelled) ==
    IF resp.kind = "fail"
    THEN IF NotCancelled(cancelled) THEN SetError(CMACatchMsg, "failure") ELSE Return
    ELSE LET candidates == CMACandidates(resp)
             loop == IF LoopCond(att + 1, CMA_ATTEMPTS, cancelled)
                     THEN NextRequest
                     ELSE IF NotCancelled(cancelled)
                          THEN SetError(CMARetryMsg, "exhausted")
                          ELSE Return
         IN  IF Len(candidates) > 0
             THEN IF CMASkipPick(CMAImgUrl(candidates[r]))
                  THEN loop
                  ELSE IF NotCancelled(cancelled)
                       THEN SetArt(CMANormalize(candidates[r]), candidates[r])
                       ELSE Return
             ELSE loop

----------------------------------------------------------------------------
(* met.tsx *)

MetRetryMsg == S("Couldn't find a CC0 image right now. Pull to refresh.")
MetLoadFailMsg == S("Failed to load object IDs.")

\* o?.isPublicDomain && (o.primaryImageSmall || o.primaryImage)
MetUsable(o) == o.isPublicDomain /\ Truthy(Or(o.primaryImageSmall, o.primaryImage))

MetNormalize(objectID, o) ==
    [id |-> objectID,
     title |-> Or(o.title, S("Untitled")),
     artist |-> Or(o.artistDisplayName, S("Unknown")),
     img |-> Or(o.primaryImageSmall, o.primaryImage)]

\* const idx = (startIndex + i * STRIDE) % ids.length   (0-based)
IdxM(start, i, len) == (start * i + STRIDE) % len
Idx(start, i, len) == (start + i * STRIDE) % len

\* the continuation of the picker after the response of probe `att`
MetStep(resp, objectID, att, cancelled) ==
    IF resp.kind = "ok" /\ MetUsable(resp.o)
    THEN IF NotCancelled(cancelled)
         THEN SetArt(MetNormalize(objectID, resp.o), resp.o)
         ELSE Return
    ELSE \* an unusable record, or the catch block: continue
         IF LoopCond(att + 1, TRY_LIMIT, cancelled)
         THEN NextRequest
         ELSE IF NotCancelled(cancelled)
              THEN SetError(MetRetryMsg, "exhausted")
              ELSE Return

\* JSON.stringify / JSON.parse of a number[]; the text is kept as tokens
JSONstringify(arr) == <<"[">> \o arr \o <<"]">>
JSONparse(text) == SubSeq(text, 2, Len(text) - 1)

\* AsyncStorage: an absent key reads as null
NoEntry == [has |-> FALSE, text |-> <<>>]
Entry(text) == [has |-> TRUE, text |-> text]

\* if (cached): null and "" are falsy
CachedHitM(cached) == FALSE
CachedHit(cached) == cached.has /\ Len(cached.text) > 0

\* data?.objectIDs ?? []
ObjectIDs(data) == IF IsArray(data.objectIDs) THEN data.objectIDs.v ELSE <<>>

----------------------------------------------------------------------------
(* The screen: what a picker run reads and writes, gathered in one record  *)
(* so that the runs one render causes can be composed.                     *)

Cur ==
    [loading |-> loading, art |-> art, error |-> error, artSrc |-> artSrc,
     lastWriter |-> lastWriter, inv |-> inv, attempt |-> attempt,
     startIndex |-> startIndex, nreq |-> nreq, clean |-> clean, saw |-> saw,
     late |-> late]

Set(d) ==
    /\ loading' = d.loading
    /\ art' = d.art
    /\ error' = d.error
    /\ artSrc' = d.artSrc
    /\ lastWriter' = d.lastWriter
    /\ inv' = d.inv
    /\ attempt' = d.attempt
    /\ startIndex' = d.startIndex
    /\ nreq' = d.nreq
    /\ clean' = d.clean
    /\ saw' = d.saw
    /\ late' = d.late

Starts(d) ==
    /\ loading = d.loading
    /\ art = d.art
    /\ error = d.error
    /\ artSrc = d.artSrc
    /\ lastWriter = d.lastWriter
    /\ inv = d.inv
    /\ attempt = d.attempt
    /\ startIndex = d.startIndex
    /\ nreq = d.nreq
    /\ clean = d.clean
    /\ saw = d.saw
    /\ late = d.late

\* who wrote last: the loader or a picker run, whether that run was the
\* newest one when it wrote, and why it wrote
Writer(by, newest, why) == [by |-> by, newest |-> newest, why |-> why]

\* return () => { cancelled = true; }: the cleanup of the newest run
CleanupM(runs) == runs
Cleanup(runs) ==
    [k \in 1..Len(runs) |->
        IF k = Len(runs) THEN [runs[k] EXCEPT !.cancelled = TRUE] ELSE runs[k]]

\* A closure that is cancelled and awaits nothing can do nothing more: it
\* is garbage and is dropped.
Live(runs) == SelectSeq(runs, LAMBDA r : ~(r.cancelled /\ r.pc # "await"))

\* Math.floor(Math.random() * ids.length)
StartChoices(idlist) == IF idlist = <<>> THEN {0} ELSE 0..(Len(idlist) - 1)

\* One run of the picker effect: the cleanup of the previous run, then the
\* new run up to its first await (the first fetch is issued).  On the Met
\* screen the run returns at once while ids is empty.
PickerEffectM(d, idlist, start) ==
    LET runs == Live(Cleanup(d.inv))
        fresh == [d EXCEPT !.attempt = 0, !.startIndex = 0, !.nreq = 0,
                           !.clean = TRUE, !.saw = FALSE]
    IN  IF screen = "met" /\ Len(idlist) = 0
        THEN [fresh EXCEPT
                !.inv = Append(runs, [cancelled |-> FALSE, pc |-> "skipped"])]
        ELSE [fresh EXCEPT
                !.inv = Append(runs, [cancelled |-> FALSE, pc |-> "await"]),
                !.loading = TRUE,
                !.lastWriter = Writer("find", TRUE, "start"),
                !.startIndex = start,
                !.nreq = 1]
PickerEffect(d, idlist, start) ==
    LET runs == Live(Cleanup(d.inv))
        fresh == [d EXCEPT !.attempt = 0, !.startIndex = 0, !.nreq = 0,
                           !.clean = TRUE, !.saw = FALSE]
    IN  IF screen = "met" /\ Len(idlist) = 0
        THEN [fresh EXCEPT
                !.inv = Append(runs, [cancelled |-> FALSE, pc |-> "skipped"])]
        ELSE [fresh EXCEPT
                !.inv = Append(runs, [cancelled |-> FALSE, pc |-> "await"]),
                !.loading = TRUE,
                !.art = NoArt,
                !.artSrc = UNDEF,
                !.error = EMPTY,
                !.lastWriter = Writer("find", TRUE, "start"),
                !.startIndex = start,
                !.nreq = 1]

\* The start of the loader effect: setLoading(true); setError(""); and the
\* read of the store is issued.
LoaderEffect(d) ==
    [d EXCEPT !.loading = TRUE, !.error = EMPTY,
              !.lastWriter = Writer("loader", TRUE, "start")]

NewLoader == [cancelled |-> FALSE, pc |-> "getItem", arr |-> <<>>, fetched |-> "no"]

\* The component as constructed (the useState initial values)
Constructed(runs) ==
    [loading |-> TRUE, art |-> NoArt, error |-> EMPTY, artSrc |-> UNDEF,
     lastWriter |-> Writer("none", TRUE, "none"), inv |-> runs, attempt |-> 0,
     startIndex |-> 0, nreq |-> 0, clean |-> TRUE, saw |-> FALSE, late |-> FALSE]

\* The effects of the first render, in source order
MountEffects(d) ==
    IF screen = "met"
    THEN PickerEffect(LoaderEffect(d), <<>>, 0)
    ELSE PickerEffect(d, <<>>, 0)

Events == triggers + (mounts - 1)

----------------------------------------------------------------------------
(* The state after construction and the first render's effects *)

ProbeIdle == pL = 1 /\ pS = 0 /\ pI = 0 /\ pSeen = {} /\ pDup = FALSE

\* no long press yet
NoSave == [t |-> "none"]
SaveIdle ==
    /\ savePc = "idle"
    /\ saveReq = NoSave
    /\ alert = "none"
    /\ webDownload = FALSE
    /\ saveThrew = FALSE

InitialStores(scr) ==
    IF scr = "met"
    THEN {NoEntry} \cup {Entry(JSONstringify(l)) : l \in IdLists}
    ELSE {NoEntry}

Init ==
    /\ screen \in Screens
    /\ store \in InitialStores(screen)
    /\ coldStart = ~store.has
    /\ ids = <<>>
    /\ refreshing = FALSE
    /\ randomKey = 0
    /\ refreshKey = 0
    /\ loaders = IF screen = "met" THEN <<NewLoader>> ELSE <<>>
    /\ Starts(MountEffects(Constructed(<<>>)))
    /\ bulkFetches = 0
    /\ sequential = TRUE
    /\ mounts = 1
    /\ triggers = 0
    /\ ProbeIdle
    /\ platform = "ios"
    /\ SaveIdle

----------------------------------------------------------------------------
(* User events *)

probe == <<pL, pS, pI, pSeen, pDup>>
saver == <<platform, savePc, saveReq, alert, webDownload, saveThrew>>
others == <<screen, store, loaders, bulkFetches, coldStart, sequential, mounts>>

\* shuffle(): setRandomKey(k => k + 1); the render re-runs the picker effect
Shuffle ==
    /\ Events < MaxEvents
    /\ triggers' = triggers + 1
    /\ randomKey' = randomKey + 1
    /\ \E start \in StartChoices(ids) : Set(PickerEffect(Cur, ids, start))
    /\ UNCHANGED <<ids, refreshing, refreshKey>>
    /\ UNCHANGED <<others, probe, saver>>

\* onRefresh(): setRefreshing(true); bump the key; setTimeout(..., 400)
Refresh ==
    /\ Events < MaxEvents
    /\ triggers' = triggers + 1
    /\ refreshing' = TRUE
    /\ IF screen = "met"
       THEN refreshKey' = refreshKey + 1 /\ UNCHANGED randomKey
       ELSE randomKey' = randomKey + 1 /\ UNCHANGED refreshKey
    /\ \E start \in StartChoices(ids) : Set(PickerEffect(Cur, ids, start))
    /\ UNCHANGED ids
    /\ UNCHANGED <<others, probe, saver>>

\* the setTimeout callback: setRefreshing(false).  A callback that finds
\* refreshing already false changes nothing and is not a step.
RefreshTimeout ==
    /\ refreshing
    /\ refreshing' = FALSE
    /\ Set(Cur)
    /\ UNCHANGED <<ids, randomKey, refreshKey, triggers>>
    /\ UNCHANGED <<others, probe, saver>>

----------------------------------------------------------------------------
(* Responses to the pickers' requests *)

\* The state after the continuation `step` of run k has run.  The loop
\* variable and the history of the newest run are kept; a superseded run's
\* are not.
ApplyStep(d, k, step, respClean, sawCandidates) ==
    LET newest == (k = Len(d.inv))
        d1 == [d EXCEPT !.inv[k].pc = IF step.next = "request" THEN "await" ELSE "done"]
        d2 == CASE step.w = "art" ->
                     [d1 EXCEPT !.art = step.art, !.artSrc = step.src, !.loading = FALSE,
                                !.lastWriter = Writer("find", newest, step.why)]
                [] step.w = "error" ->
                     [d1 EXCEPT !.error = step.msg, !.loading = FALSE,
                                !.lastWriter = Writer("find", newest, step.why)]
                [] OTHER -> d1
        d3 == IF newest
              THEN [d2 EXCEPT !.attempt = IF step.next = "request" THEN @ + 1 ELSE @,
                              !.nreq = IF step.next = "request" THEN @ + 1 ELSE @,
                              !.clean = @ /\ respClean,
                              !.saw = @ \/ sawCandidates]
              ELSE d2
    IN  [d3 EXCEPT !.inv = Live(@), !.late = @ \/ d.inv[k].cancelled]

\* The loop variable of run k.  A superseded run's is not kept: its
\* continuation runs with cancelled = true, where LoopCond is false
\* whatever i is, and 0 stands for it.
AttemptOf(k) == IF k = Len(inv) THEN attempt ELSE 0

PickChoices(candidates) == IF candidates = <<>> THEN {1} ELSE 1..Len(candidates)

Pending == {k \in 1..Len(inv) : inv[k].pc = "await"}

frame == <<ids, refreshing, randomKey, refreshKey, triggers>>

AICReply ==
    /\ screen = "aic"
    /\ \E k \in Pending, resp \in AICResponses :
         LET filtered == IF resp.kind = "ok" THEN AICCandidates(resp) ELSE <<>>
         IN  \E r \in PickChoices(filtered) :
                Set(ApplyStep(Cur, k, AICStep(resp, r, AttemptOf(k), inv[k].cancelled),
                              resp.kind = "ok" /\ filtered = <<>>, filtered # <<>>))
    /\ UNCHANGED frame
    /\ UNCHANGED <<others, probe, saver>>

\* the records of a CMA body from which an image URL can be built
CMAResolvable(resp) == SelectSeq(CMAData(resp), LAMBDA it : Truthy(CMAImgUrl(it)))

CMAReply ==
    /\ screen = "cma"
    /\ \E k \in Pending, resp \in CMAResponses :
         LET filtered == IF resp.kind = "ok" THEN CMACandidates(resp) ELSE <<>>
         IN  \E r \in PickChoices(filtered) :
                Set(ApplyStep(Cur, k, CMAStep(resp, r, AttemptOf(k), inv[k].cancelled),
                              resp.kind = "ok" /\ CMAResolvable(resp) = <<>>,
                              filtered # <<>>))
    /\ UNCHANGED frame
    /\ UNCHANGED <<others, probe, saver>>

\* ids[idx] of the probe whose response is in.  A superseded run probes the
\* list its own render captured, which is not kept: 1 stands for it.
ObjectIdOf(k) ==
    IF k = Len(inv) THEN ids[Idx(startIndex, attempt, Len(ids)) + 1] ELSE 1

MetReply ==
    /\ screen = "met"
    /\ \E k \in Pending, resp \in MetResponses :
         LET usable == resp.kind = "ok" /\ MetUsable(resp.o)
         IN  Set(ApplyStep(Cur, k,
                           MetStep(resp, ObjectIdOf(k), AttemptOf(k), inv[k].cancelled),
                           resp.kind = "ok" /\ ~usable, usable))
    /\ UNCHANGED frame
    /\ UNCHANGED <<others, probe, saver>>

----------------------------------------------------------------------------
(* met.tsx: the ID-list loader effect and the ids effect *)

\* The render after setIds(arr) and setLoading(false), and its effects: the
\* ids effect bumps randomKey when the list is not empty; the picker effect
\* runs for the new ids, and again for the new randomKey.
IdsArrive(d, arr, start1, start2) ==
    LET d1 == [d EXCEPT !.loading = FALSE, !.lastWriter = Writer("loader", TRUE, "done")]
        d2 == PickerEffect(d1, arr, start1)
    IN  IF Len(arr) > 0 THEN PickerEffect(d2, arr, start2) ELSE d2

SetIds(arr) ==
    /\ ids' = arr
    /\ randomKey' = IF Len(arr) > 0 THEN randomKey + 1 ELSE randomKey
    /\ \E start1 \in StartChoices(arr), start2 \in StartChoices(arr) :
          Set(IdsArrive(Cur, arr, start1, start2))

Finished(l) == [l EXCEPT !.pc = "done", !.arr = <<>>]

\* const cached = await AsyncStorage.getItem(STORAGE_KEYS.IDS) has resolved
LoaderRead ==
    /\ screen = "met"
    /\ \E j \in 1..Len(loaders) :
        /\ loaders[j].pc = "getItem"
        /\ IF CachedHit(store)
           THEN /\ loaders' = [loaders EXCEPT ![j] = Finished(@)]
                /\ IF NotCancelled(loaders[j].cancelled)
                   THEN SetIds(JSONparse(store.text))
                   ELSE Set(Cur) /\ UNCHANGED <<ids, randomKey>>
                /\ UNCHANGED bulkFetches
           ELSE /\ loaders' = [loaders EXCEPT ![j].pc = "fetch"]
                /\ bulkFetches' = bulkFetches + 1
                /\ Set(Cur)
                /\ UNCHANGED <<ids, randomKey>>
    /\ UNCHANGED <<screen, store, refreshing, refreshKey, coldStart,
                   sequential, mounts, triggers, probe, saver>>

\* fetch(`${BASE}/objects`) and res.json() have resolved or thrown
LoaderFetched ==
    /\ screen = "met"
    /\ \E j \in 1..Len(loaders), resp \in BulkResponses :
        /\ loaders[j].pc = "fetch"
        /\ IF resp.kind = "fail"
           THEN /\ loaders' = [loaders EXCEPT ![j] = [Finished(@) EXCEPT !.fetched = "fail"]]
                /\ IF NotCancelled(loaders[j].cancelled)
                   THEN Set([Cur EXCEPT !.error = MetLoadFailMsg, !.loading = FALSE,
                                        !.lastWriter = Writer("loader", TRUE, "failure")])
                   ELSE Set(Cur)
           ELSE /\ loaders' = [loaders EXCEPT ![j].pc = "setItem", ![j].fetched = "ok",
                                              ![j].arr = ObjectIDs(resp)]
                /\ Set(Cur)
    /\ UNCHANGED <<screen, store, ids, randomKey, refreshing, refreshKey,
                   bulkFetches, coldStart, sequential, mounts, triggers, probe, saver>>

\* await AsyncStorage.setItem(STORAGE_KEYS.IDS, JSON.stringify(arr)) has resolved
LoaderStored ==
    /\ screen = "met"
    /\ \E j \in 1..Len(loaders) :
        /\ loaders[j].pc = "setItem"
        /\ store' = Entry(JSONstringify(loaders[j].arr))
        /\ loaders' = [loaders EXCEPT ![j] = Finished(@)]
        /\ IF NotCancelled(loaders[j].cancelled)
           THEN SetIds(loaders[j].arr)
           ELSE Set(Cur) /\ UNCHANGED <<ids, randomKey>>
    /\ UNCHANGED <<screen, refreshing, refreshKey, bulkFetches, coldStart,
                   sequential, mounts, triggers, probe, saver>>

----------------------------------------------------------------------------
(* The screen is unmounted (every effect's cleanup runs) and mounted again; *)
(* the requests of the old closures stay in flight, the store is kept.      *)

Remount ==
    /\ Events < MaxEvents
    /\ mounts' = mounts + 1
    /\ sequential' = (sequential /\ \A j \in 1..Len(loaders) : loaders[j].pc = "done")
    /\ loaders' = IF screen = "met" THEN Append(Cleanup(loaders), NewLoader) ELSE loaders
    /\ ids' = <<>>
    /\ refreshing' = FALSE
    /\ randomKey' = 0
    /\ refreshKey' = 0
    /\ Set([MountEffects(Constructed(inv)) EXCEPT !.late = late])
    /\ UNCHANGED <<screen, store, bulkFetches, coldStart, triggers, probe, saver>>

Next ==
    \/ Shuffle
    \/ Refresh
    \/ RefreshTimeout
    \/ AICReply
    \/ CMAReply
    \/ MetReply
    \/ LoaderRead
    \/ LoaderFetched
    \/ LoaderStored
    \/ Remount

Spec == Init /\ [][Next]_vars

----------------------------------------------------------------------------
(* The probe sequence of the Met picker on its own: the first pL probes of *)
(* a list of length pL from start index pS.                                *)

ProbeInit ==
    /\ pL \in 1..MaxLen
    /\ pS \in 0..(pL - 1)
    /\ pI = 0
    /\ pSeen = {}
    /\ pDup = FALSE
    /\ screen = "met"
    /\ store = NoEntry
    /\ coldStart = TRUE
    /\ ids = <<>>
    /\ refreshing = FALSE
    /\ randomKey = 0
    /\ refreshKey = 0
    /\ loaders = <<>>
    /\ Starts(Constructed(<<>>))
    /\ bulkFetches = 0
    /\ sequential = TRUE
    /\ mounts = 0
    /\ triggers = 0
    /\ platform = "ios"
    /\ SaveIdle

\* probe number pI: idx is computed and ids[idx] requested
Probe ==
    /\ pI < pL
    /\ LET idx == Idx(pS, pI, pL)
       IN  /\ pDup' = (pDup \/ idx \in pSeen)
           /\ pSeen' = pSeen \cup {idx}
    /\ pI' = pI + 1
    /\ UNCHANGED <<pL, pS>>
    /\ UNCHANGED <<ids, refreshing, randomKey, refreshKey, triggers, others>>
    /\ UNCHANGED saver
    /\ Set(Cur)

ProbeNext == Probe

ProbeSpec == ProbeInit /\ [][ProbeNext]_vars

----------------------------------------------------------------------------
(* saveCurrentImage (the long press on the image) on its own: one call,    *)
(* from any display the screen can show.                                   *)

Platforms == {"ios", "android", "web"}

\* the artworks a screen can have on display, each with its source record
MetHttpObject ==
    [isPublicDomain |-> TRUE, primaryImageSmall |-> S("http://met/small.jpg"),
     primaryImage |-> EMPTY, title |-> S("Wheat Field"),
     artistDisplayName |-> S("Vincent van Gogh")]

Shown(scr) ==
    CASE scr = "met" ->
           {[art |-> MetNormalize(n, o), src |-> o] :
               n \in 1..MaxIds, o \in {x \in MetObjects \cup {MetHttpObject} : MetUsable(x)}}
      [] scr = "aic" ->
           {[art |-> AICNormalize([iiif_url |-> u], it), src |-> it] :
               u \in {UNDEF, S("https://iiif.example/2")},
               it \in {x \in AICItems : AICKeep(x)}}
      [] OTHER ->
           {[art |-> CMANormalize(it), src |-> it] :
               it \in {x \in CMAItems : CMAKeep(x) /\ ~CMASkipPick(CMAImgUrl(x))}}

AttemptBudget(scr) ==
    CASE scr = "met" -> TRY_LIMIT
      [] scr = "aic" -> AIC_ATTEMPTS
      [] OTHER -> CMA_ATTEMPTS

NotFoundMsg(scr) ==
    CASE scr = "met" -> MetRetryMsg
      [] scr = "aic" -> AICRetryMsg
      [] OTHER -> CMARetryMsg

\* the screen after a picker run has ended with an artwork, or without one
Displays(scr) ==
    LET ended == Constructed(<<[cancelled |-> FALSE, pc |-> "done"]>>)
    IN  {[ended EXCEPT !.loading = FALSE, !.art = p.art, !.artSrc = p.src, !.nreq = 1,
                       !.saw = TRUE, !.clean = FALSE,
                       !.lastWriter = Writer("find", TRUE, "art")] : p \in Shown(scr)}
        \cup {[ended EXCEPT !.loading = FALSE, !.error = NotFoundMsg(scr),
                            !.nreq = AttemptBudget(scr),
                            !.attempt = AttemptBudget(scr) - 1,
                            !.lastWriter = Writer("find", TRUE, "exhausted")]}

SaveInit ==
    /\ screen \in Screens
    /\ platform \in Platforms
    /\ SaveIdle
    /\ \E d \in Displays(screen) : Starts(d)
    /\ ids = IF screen = "met" THEN [n \in 1..MaxIds |-> n] ELSE <<>>
    /\ store = IF screen = "met" THEN Entry(JSONstringify(ids)) ELSE NoEntry
    /\ coldStart = FALSE
    /\ loaders = IF screen = "met" THEN <<[Finished(NewLoader) EXCEPT !.fetched = "no"]>> ELSE <<>>
    /\ refreshing = FALSE
    /\ randomKey = IF screen = "met" THEN 1 ELSE 0
    /\ refreshKey = 0
    /\ bulkFetches = 0
    /\ sequential = TRUE
    /\ mounts = 1
    /\ triggers = 0
    /\ ProbeIdle

\* art.img.replace(/^http:/, "https:"): only the head of the string can match
ForceHttpsChunk(c) ==
    CASE c = "http://met/small.jpg" -> "https://met/small.jpg"
      [] OTHER -> c
ForceHttps(x) ==
    IF x.v = <<>> THEN x ELSE Str(<<ForceHttpsChunk(Head(x.v))>> \o Tail(x.v))

\* `${FileSystem.cacheDirectory}met-${art.id}.jpg`
FileName(scr, id) == <<scr, "-", id, ".jpg">>
FileUri(scr, id) == <<"cacheDirectory">> \o FileName(scr, id)

\* if (!art?.img) return;
SaveGuard(a) == a # NoArt /\ Truthy(a.img)

\* catch { Alert.alert("Save failed", ...) }: the display the catch block
\* leaves (it sets no state)
SaveCatchM(d) == [d EXCEPT !.error = S("Save failed"), !.loading = FALSE]
SaveCatch(d) == d

rest == <<ids, refreshing, randomKey, refreshKey, triggers, others, probe, platform>>

\* the long press: saveCurrentImage up to `await FileSystem.downloadAsync`
SaveStart ==
    /\ savePc = "idle"
    /\ IF SaveGuard(art)
       THEN /\ saveReq' = [url |-> ForceHttps(art.img), fileUri |-> FileUri(screen, art.id)]
            /\ savePc' = "download"
       ELSE /\ savePc' = "returned"
            /\ UNCHANGED saveReq
    /\ Set(Cur)
    /\ UNCHANGED <<alert, webDownload, saveThrew>>
    /\ UNCHANGED rest

\* downloadAsync has resolved or thrown; on web the link is clicked and the
\* call returns, elsewhere the permission is requested
Downloaded ==
    /\ savePc = "download"
    /\ \E outcome \in {"ok", "throw"} :
        IF outcome = "throw"
        THEN /\ savePc' = "done"
             /\ alert' = "Save failed"
             /\ saveThrew' = TRUE
             /\ Set(SaveCatch(Cur))
             /\ UNCHANGED webDownload
        ELSE /\ IF platform = "web"
                THEN savePc' = "done" /\ webDownload' = TRUE
                ELSE savePc' = "permission" /\ UNCHANGED webDownload
             /\ Set(Cur)
             /\ UNCHANGED <<alert, saveThrew>>
    /\ UNCHANGED saveReq
    /\ UNCHANGED rest

\* MediaLibrary.requestPermissionsAsync() has resolved or thrown
PermissionAnswered ==
    /\ savePc = "permission"
    /\ \E status \in {"granted", "denied", "undetermined", "throw"} :
        CASE status = "throw" ->
               /\ savePc' = "done"
               /\ alert' = "Save failed"
               /\ saveThrew' = TRUE
               /\ Set(SaveCatch(Cur))
          [] status = "granted" ->
               /\ savePc' = "save"
               /\ Set(Cur)
               /\ UNCHANGED <<alert, saveThrew>>
          [] OTHER ->
               /\ savePc' = "done"
               /\ alert' = "Permission needed"
               /\ Set(Cur)
               /\ UNCHANGED saveThrew
    /\ UNCHANGED <<saveReq, webDownload>>
    /\ UNCHANGED rest

\* MediaLibrary.saveToLibraryAsync(dl.uri) has resolved or thrown
LibrarySaved ==
    /\ savePc = "save"
    /\ \E outcome \in {"ok", "throw"} :
        IF outcome = "throw"
        THEN /\ alert' = "Save failed"
             /\ saveThrew' = TRUE
             /\ Set(SaveCatch(Cur))
        ELSE /\ alert' = "Saved"
             /\ Set(Cur)
             /\ UNCHANGED saveThrew
    /\ savePc' = "done"
    /\ UNCHANGED <<saveReq, webDownload>>
    /\ UNCHANGED rest

SaveNext ==
    \/ SaveStart
    \/ Downloaded
    \/ PermissionAnswered
    \/ LibrarySaved

SaveSpec == SaveInit /\ [][SaveNext]_vars

----------------------------------------------------------------------------
(* Properties *)

Newest == inv[Len(inv)]

BatchScreen == screen \in {"aic", "cma"}

Budget ==
    CASE screen = "aic" -> AIC_ATTEMPTS
      [] screen = "cma" -> CMA_ATTEMPTS
      [] OTHER -> TRY_LIMIT

RetryMsg ==
    CASE screen = "aic" -> AICRetryMsg
      [] screen = "cma" -> CMARetryMsg
      [] OTHER -> MetRetryMsg

\* the cancelled picker runs that still await a response
Superseded == {k \in 1..Len(inv) : inv[k].cancelled}

AllResolved == Pending = {} /\ \A j \in 1..Len(loaders) : loaders[j].pc = "done"

RECURSIVE GCD(_, _)
GCD(a, b) == IF b = 0 THEN a ELSE GCD(b, a % b)

\* C1: on every screen, a step in which a cancelled picker run handles its
\* response (whatever the response is) leaves art, error and loading as
\* they were.
CancelledRunWritesNothing ==
    [][Cardinality(Superseded') < Cardinality(Superseded)
          => (art' = art /\ error' = error /\ loading' = loading)]_vars

\* C1 witness: a response has been handled by a cancelled run while the
\* newest run's artwork is on display.
LateResponseSeen == late /\ art # NoArt /\ Pending = {}

\* C2 (the claim): on AIC and CMA a run that ended without an artwork has
\* used its whole attempt budget (a failed attempt never ends the run).
FailureNeverEndsBatchRun ==
    (BatchScreen /\ Newest.pc = "done" /\ art = NoArt) => nreq = Budget

\* C3: a picker run that has ended and whose every response was well formed
\* and held no usable record has issued exactly Budget requests and left
\* art = null, loading = false and error = the screen's retry message.  (A
\* Met run that returns at the ids.length guard is "skipped", not "done":
\* it starts no search.)
CleanRunExhaustsBudget ==
    (Newest.pc = "done" /\ clean)
        => (nreq = Budget /\ art = NoArt /\ ~loading /\ error = RetryMsg)

\* C3 witness: the Met picker has ended after 200 probes, all well formed
\* and unusable.
MetProbedWholeBudget ==
    screen = "met" /\ Newest.pc = "done" /\ clean /\ nreq = TRY_LIMIT

\* C4 (the claim): on AIC and CMA, once the newest run has handled a
\* response whose filtered candidate set is non-empty, it has ended with an
\* artwork on display and issues no further request.
FirstCandidateBatchEndsRun ==
    (BatchScreen /\ saw) => (Newest.pc = "done" /\ art # NoArt)

\* C5: a displayed artwork has a non-empty img.
ArtHasImage == art # NoArt => Truthy(art.img)

\* C5 witness: a CMA artwork built from a fallback image field is on display.
CMAFallbackImageShown ==
    screen = "cma" /\ art # NoArt /\ ~Truthy(artSrc.web_url)

\* the catalogs' licensing-and-image predicates
Licensed(rec) ==
    CASE screen = "met" ->
           rec.isPublicDomain /\ (Truthy(rec.primaryImageSmall) \/ Truthy(rec.primaryImage))
      [] screen = "aic" ->
           rec.is_public_domain /\ Truthy(rec.image_id)
      [] OTHER ->
           /\ ToLowerCase(rec.share_license_status) = S("cc0")
           /\ (Truthy(rec.web_url) \/ Truthy(rec.web_large) \/ Truthy(rec.print_url))

\* C6 (the claim): the source record of a displayed artwork satisfies its
\* catalog's licensing-and-image predicate.
DisplayedRecordIsLicensed == art # NoArt => Licensed(artSrc)

\* C7: at most one picker run is uncancelled; art, error and loading are
\* never left by a superseded run; and once every request has resolved and
\* the newest run has searched, what is displayed is that run's outcome.
LastInvocationWins ==
    /\ Cardinality({k \in 1..Len(inv) : ~inv[k].cancelled}) <= 1
    /\ lastWriter.by = "find" => (lastWriter.newest /\ Newest.pc # "skipped")
    /\ (AllResolved /\ Newest.pc = "done")
         => /\ lastWriter.by = "find"
            /\ \/ art # NoArt /\ lastWriter.why = "art" /\ ~Truthy(error)
               \/ art = NoArt /\ lastWriter.why \in {"failure", "exhausted"} /\ Truthy(error)

\* C7 witness: a run was superseded by a shuffle or a pull-to-refresh, its
\* response came in late, and the newest run's artwork is displayed.
SupersededThenSettled ==
    triggers > 0 /\ late /\ AllResolved /\ Newest.pc = "done" /\ art # NoArt

\* two loader runs, one after the other, from a store with no entry
TwoLoadsInSequence ==
    /\ screen = "met"
    /\ coldStart
    /\ sequential
    /\ Len(loaders) = 2
    /\ \A j \in 1..2 : loaders[j].pc = "done"

TitleAndArtistNeverEmpty ==
    art # NoArt => (Truthy(art.title) /\ Truthy(art.artist))

\* the indices the newest Met run has probed so far: probes 0 .. nreq - 1
ProbedIndices == [i \in 0..(nreq - 1) |-> Idx(startIndex, i, Len(ids))]

\* C13 (the claim): within one Met run the probed indices are pairwise
\* distinct, for every non-empty list and every start index.
ProbesNeverRepeat ==
    (screen = "met" /\ Len(ids) > 0 /\ Newest.pc # "skipped" /\ nreq > 0)
        => \A i \in 0..(nreq - 1) :
              \A j \in 0..(nreq - 1) :
                  i # j => ProbedIndices[i] # ProbedIndices[j]

\* C14: art and error are never both set, and while the newest run awaits
\* a response (it has cleared the display at its start and set nothing
\* since) both are empty.
NeverMerged ==
    /\ ~(art # NoArt /\ Truthy(error))
    /\ Newest.pc = "await" => (art = NoArt /\ ~Truthy(error) /\ loading)

\* C14 witness: a run started by a shuffle or a pull-to-refresh has ended
\* with an artwork on display.
ArtAfterTrigger ==
    triggers > 0 /\ Newest.pc = "done" /\ art # NoArt /\ ~Truthy(error)

\* nothing is in flight and no timer is pending
Quiescent == AllResolved /\ ~refreshing

\* C15 (the claim): once nothing is in flight, loading is false and exactly
\* one of art and error is set.
SettledShowsArtOrError ==
    Quiescent => (~loading /\ ((art # NoArt) # Truthy(error)))

\* C16 (the claim): an entry the loader has written holds a non-empty list.
CacheHoldsUsableList ==
    (screen = "met" /\ coldStart /\ store.has) => Len(JSONparse(store.text)) > 0

\* C17 (the claim): before any user event, no picker run that has issued a
\* request has been cancelled.
NoRequestFromRunCancelledUnprompted ==
    (triggers = 0 /\ mounts = 1) => (Superseded = {} /\ ~late)

\* C12: every step of saveCurrentImage leaves art, error and loading as
\* they were; a step in which an awaited call throws raises the "Save
\* failed" alert, and that alert is raised by nothing else.
SaveLeavesDisplay ==
    [][savePc' # savePc
          => /\ art' = art /\ error' = error /\ loading' = loading
             /\ (saveThrew' # saveThrew) <=> (alert' = "Save failed")]_vars

\* C12 witness: with an artwork on display, a save on a native platform has
\* ended in the "Save failed" alert.
SaveFailedAfterDownload ==
    /\ art # NoArt
    /\ savePc = "done"
    /\ saveThrew
    /\ alert = "Save failed"
    /\ platform # "web"

====
